---- MODULE Spec2Model ----
(***************************************************************************)
(* Model of the group-information export plugin (src/main.py).             *)
(*                                                                         *)
(* Python values are tagged records [t |-> tag, v |-> payload]:            *)
(*   "none"   None                      v = 0                              *)
(*   "bool"   True / False              v \in BOOLEAN                      *)
(*   "int"    an int                    v \in Int                          *)
(*   "bigint" an int beyond the model's integer width, v its decimal       *)
(*            string (group ids, out-of-range timestamps)                  *)
(*   "float"  a float, v its value in tenths (15 is 1.5)                   *)
(*   "str"    text, v the sequence of its code points                      *)
(*   "text"   text whose characters are read as such (a formatted time, a  *)
(*            group id as typed), v a TLA+ string                          *)
(*   "dict"   a mapping, v a function from keys to values                  *)
(* Group ids and sheet names, whose length matters, are TLA+ strings.      *)
(* datetime.fromtimestamp is evaluated for a process whose local timezone  *)
(* is UTC.                                                                 *)
(***************************************************************************)
EXTENDS Integers, Sequences, FiniteSets, TLC

VARIABLES cmd, pc, groupIdStr, log, groupList, gi, sheets,
          totalMembers, processedGroups, rows, fnOp, fnArg, fnGroup, fnRes

vars == <<cmd, pc, groupIdStr, log, groupList, gi, sheets,
          totalMembers, processedGroups, rows, fnOp, fnArg, fnGroup, fnRes>>

cmdVars == <<cmd, pc, groupIdStr, log, groupList, gi, sheets,
             totalMembers, processedGroups, rows>>

fnVars == <<fnOp, fnArg, fnGroup, fnRes>>

(***************************************************************************)
(* Bounds of the model.                                                    *)
(***************************************************************************)
MaxLen == 3
MaxMembers == 2
MaxGroups == 2
LongIdLen == 33

(***************************************************************************)
(* Python values.                                                          *)
(***************************************************************************)
None == [t |-> "none", v |-> 0]
Bool(b) == [t |-> "bool", v |-> b]
Num(n) == [t |-> "int", v |-> n]
BigInt(s) == [t |-> "bigint", v |-> s]
Float(tenths) == [t |-> "float", v |-> tenths]
Str(s) == [t |-> "str", v |-> s]
Text(s) == [t |-> "text", v |-> s]
Dict(f) == [t |-> "dict", v |-> f]

\* Python truth value of x ("if x", "not x").
Truthy(x) ==
    CASE x.t = "none" -> FALSE
      [] x.t = "bool" -> x.v
      [] x.t = "int" -> x.v # 0
      [] x.t = "bigint" -> x.v # "0"
      [] x.t = "float" -> x.v # 0
      [] x.t = "str" -> Len(x.v) > 0
      [] x.t = "text" -> x.v # ""
      [] x.t = "dict" -> DOMAIN x.v # {}

\* isinstance(x, (int, float)); bool is a subclass of int.
IsIntOrFloat(x) == x.t \in {"int", "bigint", "float", "bool"}

\* x > 0 for a number x.
Positive(x) ==
    CASE x.t = "bool" -> x.v
      [] x.t = "int" -> x.v > 0
      [] x.t = "bigint" -> SubSeq(x.v, 1, 1) \notin {"-", "0"}
      [] x.t = "float" -> x.v > 0
      [] OTHER -> FALSE

\* d.get(k) and d.get(k, default) for the function d.
DictGet(d, k, default) == IF k \in DOMAIN d THEN d[k] ELSE default

\* d[k] = x.
DictSet(d, k, x) == [y \in DOMAIN d \cup {k} |-> IF y = k THEN x ELSE d[y]]

(***************************************************************************)
(* datetime.fromtimestamp(float(ts)).strftime('%Y-%m-%d %H:%M:%S').        *)
(***************************************************************************)
Digit(n) == SubSeq("0123456789", n + 1, n + 1)
Pad2(n) == Digit((n \div 10) % 10) \o Digit(n % 10)
Pad4(n) == Pad2(n \div 100) \o Pad2(n % 100)

\* The civil date of day number `days` (days since 1970-01-01).
CivilFromDays(days) ==
    LET z == days + 719468
        era == z \div 146097
        doe == z - era * 146097
        yoe == (doe - doe \div 1460 + doe \div 36524 - doe \div 146096) \div 365
        doy == doe - (365 * yoe + yoe \div 4 - yoe \div 100)
        mp == (5 * doy + 2) \div 153
        d == doy - (153 * mp + 2) \div 5 + 1
        m == IF mp < 10 THEN mp + 3 ELSE mp - 9
        y == yoe + era * 400 + (IF m <= 2 THEN 1 ELSE 0)
    IN  [year |-> y, month |-> m, day |-> d]

Strftime(secs) ==
    LET date == CivilFromDays(secs \div 86400)
        rem == secs % 86400
    IN  Pad4(date.year) \o "-" \o Pad2(date.month) \o "-" \o Pad2(date.day)
        \o " " \o Pad2(rem \div 3600) \o ":" \o Pad2((rem % 3600) \div 60)
        \o ":" \o Pad2(rem % 60)

\* float(ts) in whole seconds, for a positive number the date range holds.
WholeSeconds(ts) ==
    CASE ts.t = "bool" -> 1
      [] ts.t = "int" -> ts.v
      [] ts.t = "float" -> ts.v \div 10

\* datetime.fromtimestamp raises (OverflowError, OSError, ValueError) beyond
\* the platform's date range; the model's "bigint" timestamps are beyond it.
FromTimestampRaises(ts) == ts.t = "bigint"

format_timestamp(timestamp) ==
    IF Truthy(timestamp) /\ IsIntOrFloat(timestamp) /\ Positive(timestamp)
    THEN IF FromTimestampRaises(timestamp)
         THEN None
         ELSE Text(Strftime(WholeSeconds(timestamp)))
    ELSE None

(***************************************************************************)
(* _clean_excel_invalid_chars.                                             *)
(***************************************************************************)
\* char in ['\x00', '\x01', '\x02', '\x03']
Blocked(c) == c \in {0, 1, 2, 3}

RECURSIVE CleanLoop(_, _)
CleanLoop(text, cleaned_text) ==
    IF text = <<>> THEN cleaned_text
    ELSE IF Head(text) < 32 \/ Blocked(Head(text))
         THEN CleanLoop(Tail(text), cleaned_text)
         ELSE CleanLoop(Tail(text), Append(cleaned_text, Head(text)))

\* A bug the sanitizer's properties must detect: the comparison is <= 32, so
\* the space is dropped as well.
RECURSIVE CleanLoopLe32(_, _)
CleanLoopLe32(text, cleaned_text) ==
    IF text = <<>> THEN cleaned_text
    ELSE IF Head(text) <= 32 \/ Blocked(Head(text))
         THEN CleanLoopLe32(Tail(text), cleaned_text)
         ELSE CleanLoopLe32(Tail(text), Append(cleaned_text, Head(text)))

clean_excel_invalid_chars_Le32(text) ==
    IF ~Truthy(text) \/ text.t # "str" THEN text
    ELSE Str(CleanLoopLe32(text.v, <<>>))

clean_excel_invalid_chars(text) ==
    IF ~Truthy(text) \/ text.t # "str" THEN text
    ELSE Str(CleanLoop(text.v, <<>>))

(***************************************************************************)
(* Member-record processing: the loop bodies of export_group_data and      *)
(* export_all_groups_data.  `group` is NoGroup in the single-group export  *)
(* and [group_id, group_name] in the all-groups export.  The result keeps  *)
(* the input record as the code leaves it (`member`) beside the row built  *)
(* from its copy (`row`).                                                  *)
(***************************************************************************)
NoGroup == [group_id |-> None, group_name |-> None]

TextFields == <<"nickname", "card", "title">>

\* for field in ["nickname", "card", "title"]: clean when present and truthy
RECURSIVE CleanTextFields(_, _)
CleanTextFields(member_copy, i) ==
    IF i > Len(TextFields) THEN member_copy
    ELSE LET field == TextFields[i]
         IN  IF field \in DOMAIN member_copy /\ Truthy(member_copy[field])
             THEN CleanTextFields(
                      DictSet(member_copy, field,
                              clean_excel_invalid_chars(member_copy[field])),
                      i + 1)
             ELSE CleanTextFields(member_copy, i + 1)

\* member_copy["group_id"] = group_id; member_copy["group_name"] = clean(...)
AddGroupInfo(member_copy, group) ==
    IF group = NoGroup THEN member_copy
    ELSE DictSet(DictSet(member_copy, "group_id", group.group_id),
                 "group_name", clean_excel_invalid_chars(group.group_name))

\* the four member_copy[...] = self._format_timestamp(member.get(...)) lines
FormatTimeFields(member_copy, member) ==
    LET c1 == DictSet(member_copy, "join_time",
                      format_timestamp(DictGet(member, "join_time", None)))
        c2 == DictSet(c1, "last_sent_time",
                      format_timestamp(DictGet(member, "last_sent_time", None)))
        c3 == DictSet(c2, "title_expire_time",
                      format_timestamp(DictGet(member, "title_expire_time", Num(0))))
    IN  DictSet(c3, "shut_up_timestamp",
                format_timestamp(DictGet(member, "shut_up_timestamp", Num(0))))

\* A bug the frame claim must detect: no copy is taken, so the record handed
\* in is the one that is written to.
process_member_NoCopy(member, group) ==
    LET row == FormatTimeFields(
                   AddGroupInfo(CleanTextFields(member.v, 1), group), member.v)
    IN  [member |-> Dict(row), row |-> Dict(row)]

process_member(member, group) ==
    LET member_copy == member.v
        row == FormatTimeFields(
                   AddGroupInfo(CleanTextFields(member_copy, 1), group), member.v)
    IN  [member |-> member, row |-> Dict(row)]

\* A bug the counting claim must detect: the isinstance check is missing and
\* an entry that is no mapping yields a row as an empty mapping would.
RECURSIVE process_members_NoSkip(_, _)
process_members_NoSkip(members, group) ==
    IF members = <<>> THEN <<>>
    ELSE <<process_member(IF Head(members).t = "dict" THEN Head(members)
                          ELSE Dict(<<>>), group).row>>
         \o process_members_NoSkip(Tail(members), group)

\* processed_members: the rows of the mapping entries, in order
RECURSIVE process_members(_, _)
process_members(members, group) ==
    IF members = <<>> THEN <<>>
    ELSE IF Head(members).t # "dict"
         THEN process_members(Tail(members), group)
         ELSE <<process_member(Head(members), group).row>>
              \o process_members(Tail(members), group)

(***************************************************************************)
(* Inputs.                                                                 *)
(***************************************************************************)
\* Code points: NUL, ETX, TAB, US (the last below 32), space (32), "A".
CodePoints == {0, 3, 9, 31, 32, 65}

RECURSIVE SeqsUpTo(_, _)
SeqsUpTo(S, n) ==
    IF n = 0 THEN {<<>>}
    ELSE LET shorter == SeqsUpTo(S, n - 1)
         IN  shorter \cup {Append(s, x) : s \in shorter, x \in S}

TextInputs == {Str(s) : s \in SeqsUpTo(CodePoints, MaxLen)}

NonTextInputs ==
    {None, Num(0), Num(5), Num(-1), Bool(TRUE), Bool(FALSE), Float(15),
     Dict(<<>>)}

\* 2^31 - 1 is the largest second the model's integers hold.
TimestampInputs ==
    {None, Num(-1), Num(0), Num(1), Num(59), Num(86399), Num(86400),
     Num(951782400), Num(1700000000), Num(2147483647),
     Float(-5), Float(0), Float(15), Bool(TRUE), Bool(FALSE),
     BigInt("99999999999999999999"), BigInt("-99999999999999999999"),
     Str(<<>>), Str(<<65>>), Dict(<<>>)}

GroupA == [group_id |-> BigInt("1"), group_name |-> Str(<<65, 1>>)]

GroupLong ==
    [group_id |-> BigInt("123456789012345678901234567890123"),
     group_name |-> Str(<<>>)]

MemberA ==
    Dict([k \in {"nickname", "join_time"} |->
             IF k = "nickname" THEN Str(<<65, 1, 65>>) ELSE Num(0)])

MemberB ==
    Dict([k \in {"nickname", "card", "title", "user_id", "area", "join_time",
                 "last_sent_time", "shut_up_timestamp"} |->
             CASE k = "nickname" -> Str(<<>>)
               [] k = "card" -> Str(<<65, 9, 65>>)
               [] k = "title" -> None
               [] k = "user_id" -> Num(7)
               [] k = "area" -> Str(<<65, 3, 65>>)
               [] k = "join_time" -> Num(86400)
               [] k = "last_sent_time" -> Num(-1)
               [] k = "shut_up_timestamp" -> Float(15)])

MemberC ==
    Dict([k \in {"group_id", "group_name", "user_id", "title_expire_time"} |->
             CASE k = "group_id" -> BigInt("99")
               [] k = "group_name" -> Str(<<65, 65>>)
               [] k = "user_id" -> Num(8)
               [] k = "title_expire_time" -> Str(<<65>>)])

MemberD ==
    Dict([k \in {"nickname", "card", "last_sent_time"} |->
             CASE k = "nickname" -> Num(5)
               [] k = "card" -> Str(<<0, 31>>)
               [] k = "last_sent_time" -> Num(1700000000)])

MemberEmpty == Dict(<<>>)

MemberInputs == {MemberA, MemberB, MemberC, MemberD, MemberEmpty}

(***************************************************************************)
(* The pure functions, each applied once to an input of its domain.        *)
(***************************************************************************)
FnInit ==
    /\ cmd = "idle" /\ pc = "idle" /\ groupIdStr = None /\ log = <<>>
    /\ groupList = <<>> /\ gi = 0 /\ sheets = <<>>
    /\ totalMembers = 0 /\ processedGroups = 0 /\ rows = <<>>
    /\ fnOp = "none" /\ fnArg = None /\ fnGroup = NoGroup /\ fnRes = None

FnClean ==
    /\ fnOp = "none"
    /\ \E x \in TextInputs \cup NonTextInputs :
          /\ fnOp' = "clean"
          /\ fnArg' = x
          /\ fnRes' = clean_excel_invalid_chars(x)
    /\ fnGroup' = NoGroup
    /\ UNCHANGED cmdVars

FnFormat ==
    /\ fnOp = "none"
    /\ \E ts \in TimestampInputs :
          /\ fnOp' = "format"
          /\ fnArg' = ts
          /\ fnRes' = format_timestamp(ts)
    /\ fnGroup' = NoGroup
    /\ UNCHANGED cmdVars

FnProcessSingle ==
    /\ fnOp = "none"
    /\ \E member \in MemberInputs :
          /\ fnOp' = "single"
          /\ fnArg' = member
          /\ fnRes' = process_member(member, NoGroup)
    /\ fnGroup' = NoGroup
    /\ UNCHANGED cmdVars

FnProcessMulti ==
    /\ fnOp = "none"
    /\ \E member \in MemberInputs, group \in {GroupA, GroupLong} :
          /\ fnOp' = "multi"
          /\ fnArg' = member
          /\ fnGroup' = group
          /\ fnRes' = process_member(member, group)
    /\ UNCHANGED cmdVars

FnNext == FnClean \/ FnFormat \/ FnProcessSingle \/ FnProcessMulti

SpecFn == FnInit /\ [][FnNext]_vars

(***************************************************************************)
(* int(group_id_str) and f"{group_id}": an int is kept as its canonical    *)
(* decimal string.                                                         *)
(***************************************************************************)
DigitChars == {"0", "1", "2", "3", "4", "5", "6", "7", "8", "9"}

CharAt(s, i) == SubSeq(s, i, i)

RECURSIVE StripLeft(_)
StripLeft(s) ==
    IF Len(s) > 0 /\ CharAt(s, 1) = " " THEN StripLeft(SubSeq(s, 2, Len(s)))
    ELSE s

RECURSIVE StripRight(_)
StripRight(s) ==
    IF Len(s) > 0 /\ CharAt(s, Len(s)) = " "
    THEN StripRight(SubSeq(s, 1, Len(s) - 1))
    ELSE s

RECURSIVE DropUnderscores(_)
DropUnderscores(s) ==
    IF Len(s) = 0 THEN s
    ELSE IF CharAt(s, 1) = "_" THEN DropUnderscores(SubSeq(s, 2, Len(s)))
         ELSE CharAt(s, 1) \o DropUnderscores(SubSeq(s, 2, Len(s)))

RECURSIVE StripZeros(_)
StripZeros(s) ==
    IF Len(s) > 1 /\ CharAt(s, 1) = "0" THEN StripZeros(SubSeq(s, 2, Len(s)))
    ELSE s

\* digits with single underscores between them
IntLiteralBody(b) ==
    /\ Len(b) > 0
    /\ \A i \in 1..Len(b) : CharAt(b, i) \in DigitChars \cup {"_"}
    /\ CharAt(b, 1) # "_"
    /\ CharAt(b, Len(b)) # "_"
    /\ \A i \in 1..(Len(b) - 1) : ~(CharAt(b, i) = "_" /\ CharAt(b, i + 1) = "_")

\* A bug the rejection claim must detect: the text is taken for a number as
\* soon as it starts with a digit.
IntParse_LeadingDigit(s) ==
    IF Len(s) > 0 /\ CharAt(s, 1) \in DigitChars
    THEN [ok |-> TRUE, val |-> CharAt(s, 1)]
    ELSE [ok |-> FALSE, val |-> ""]

\* int(s): ok is FALSE where int raises ValueError
IntParse(s) ==
    LET t == StripRight(StripLeft(s))
        signed == Len(t) > 0 /\ CharAt(t, 1) \in {"+", "-"}
        body == IF signed THEN SubSeq(t, 2, Len(t)) ELSE t
        mag == StripZeros(DropUnderscores(body))
    IN  IF IntLiteralBody(body)
        THEN [ok |-> TRUE,
              val |-> IF CharAt(t, 1) = "-" /\ mag # "0" THEN "-" \o mag ELSE mag]
        ELSE [ok |-> FALSE, val |-> ""]

(***************************************************************************)
(* Sheet names and the workbook.                                           *)
(***************************************************************************)
MaxSheetName == 31

\* sheet_name=f"Group_{group_id}"
SheetNameSingle(group_id) == "Group_" \o group_id

\* sheet_name = f"G{group_id}", cut to 31 characters
SheetNameMulti(group_id) ==
    LET sheet_name == "G" \o group_id
    IN  IF Len(sheet_name) > MaxSheetName
        THEN SubSeq(sheet_name, 1, MaxSheetName)
        ELSE sheet_name

SheetNames(book) == {book[i].name : i \in DOMAIN book}

SheetIndex(book, name) == CHOOSE i \in DOMAIN book : book[i].name = name

\* rows written from the top of a sheet that already holds `old`
Overlay(old, new) ==
    IF Len(new) >= Len(old) THEN new
    ELSE new \o SubSeq(old, Len(new) + 1, Len(old))

\* df.to_excel(writer, index=False, sheet_name=sheet_name) on the open
\* writer.  Outcomes: "ok"; "raise_before" (the frame or the formatter
\* raises before the engine is reached); "raise_partial" (a cell is refused
\* after the engine created the sheet, which stays in the workbook; the
\* cells written before the refusal are not kept in the model).  A name
\* already in the workbook is written over from the top.
WriteSheet(book, sheet_name, data, outcome) ==
    IF outcome = "raise_before" THEN book
    ELSE IF sheet_name \in SheetNames(book)
         THEN IF outcome = "ok"
              THEN [book EXCEPT ![SheetIndex(book, sheet_name)].rows =
                                    Overlay(@, data)]
              ELSE book
         ELSE Append(book, [name |-> sheet_name,
                            rows |-> IF outcome = "ok" THEN data ELSE <<>>])

\* Leaving "with pd.ExcelWriter(...)" saves the workbook; the engine refuses
\* (IndexError) to save a workbook that has no sheet.
WriterSaveRaises(book) == book = <<>>

(***************************************************************************)
(* What an invocation does that can be observed, in order.                 *)
(***************************************************************************)
Entry(k, a, b, n, g) == [k |-> k, a |-> a, b |-> b, n |-> n, g |-> g]

\* yield event.plain_result(<msg>)
Reply(msg) == Entry("reply", msg, "", 0, 0)
\* yield event.plain_result("已成功导出 ...") with its counts
ReplySuccess(members, groups) == Entry("reply", "success", "", members, groups)
\* yield event.plain_result("开始导出 N 个群的成员信息，请稍候...")
ReplyProgress(groups) == Entry("reply", "progress", "", 0, groups)
\* await client.api.call_action(<action>, group_id=...)
Call(action, group_id) == Entry("call", action, group_id, 0, 0)
\* what a get_group_member_list call of group g of the list gave
Fetched(kind, mapping, g) == Entry("fetched", kind, "", mapping, g)
\* df.to_excel(..., sheet_name=...) and how it ended
ToExcel(sheet_name, outcome, n, g) == Entry("to_excel", sheet_name, outcome, n, g)
\* yield event.chain_result([file_component])
FileSent == Entry("file", "chain_result", "", 0, 0)
\* upload_group_file returned
UploadDone == Entry("upload_done", "upload_group_file", "", 0, 0)
\* logger.error(...) with nothing sent to the chat
LogError(what) == Entry("logerr", what, "", 0, 0)

(***************************************************************************)
(* Inputs of the commands.                                                 *)
(***************************************************************************)
RECURSIVE Repeat(_, _)
Repeat(c, n) == IF n = 0 THEN "" ELSE c \o Repeat(c, n - 1)

\* event.get_group_id()
GroupIdStrs ==
    {None, Text(""), Text("12"), Text("007"), Text("-5"), Text(" 7 "),
     Text("1_0"), Text("1a"), Text("abc"), Text("_1"),
     Text(Repeat("1", LongIdLen))}

\* the entries of a member list: a mapping, or something else
MemberEntries == {MemberA, Str(<<65>>)}

MemberLists == SeqsUpTo(MemberEntries, MaxMembers)

\* what get_group_member_list gives: it raises, or returns a non-list or a list
FetchResults ==
    {[kind |-> "raise", members |-> <<>>], [kind |-> "nonlist", members |-> <<>>]}
    \cup {[kind |-> "list", members |-> l] : l \in MemberLists}

\* the entries of a group list; the last one lacks 'group_name'
GroupEntries ==
    {Dict(GroupA), Dict(GroupLong),
     Dict([k \in {"group_id"} |-> BigInt("2")])}

GroupLists == SeqsUpTo(GroupEntries, MaxGroups)

Mappings(members) == SelectSeq(members, LAMBDA m : m.t = "dict")

(***************************************************************************)
(* The two ways of sending the file.                                       *)
(***************************************************************************)
\* Method 1 ends the command ("return") when Comp.File and the yield of the
\* chain result raised nothing; method 2 runs otherwise.
\* A bug the ordering of the two methods must detect: the "return" after the
\* yield is missing and method 2 always follows.
PrimaryReturns_Never(outcome) == FALSE

PrimaryReturns(outcome) == outcome = "ok"

(***************************************************************************)
(* export_group_data                                                       *)
(***************************************************************************)
Init ==
    /\ cmd = "idle" /\ pc = "idle" /\ groupIdStr = None /\ log = <<>>
    /\ groupList = <<>> /\ gi = 0 /\ sheets = <<>>
    /\ totalMembers = 0 /\ processedGroups = 0 /\ rows = <<>>
    /\ fnOp = "none" /\ fnArg = None /\ fnGroup = NoGroup /\ fnRes = None

\* Lines 67-98: the checks before the member list is asked for.
S_Invoke ==
    /\ pc = "idle"
    /\ cmd' = "single"
    /\ \E group_id_str \in GroupIdStrs, platformOk, eventOk, clientOk \in BOOLEAN :
          /\ groupIdStr' = group_id_str
          /\ IF ~Truthy(group_id_str)
             THEN log' = <<Reply("use_in_group")>> /\ pc' = "done"
             ELSE IF ~IntParse(group_id_str.v).ok
             THEN log' = <<Reply("bad_group_id")>> /\ pc' = "done"
             ELSE IF ~platformOk
             THEN log' = <<Reply("qq_only")>> /\ pc' = "done"
             ELSE IF ~eventOk
             THEN log' = <<Reply("no_platform_component")>> /\ pc' = "done"
             ELSE IF ~clientOk
             THEN log' = <<Reply("no_client")>> /\ pc' = "done"
             ELSE /\ log' = <<Call("get_group_member_list",
                                   IntParse(group_id_str.v).val)>>
                  /\ pc' = "s_await_members"
    /\ UNCHANGED <<groupList, gi, sheets, totalMembers, processedGroups, rows>>
    /\ UNCHANGED fnVars

\* Lines 98-177: the member list arrives; rows, workbook, method 1 and the
\* call of method 2.
S_Members ==
    /\ pc = "s_await_members"
    /\ \E result \in FetchResults, excel \in {"ok", "raise"},
          primary \in {"ok", "raise"} :
          LET group_id == IntParse(groupIdStr.v).val
              processed_members == process_members(result.members, NoGroup)
              sheet_name == SheetNameSingle(group_id)
              written == ToExcel(sheet_name, excel, Len(processed_members), 0)
          IN  IF result.kind = "raise"
              THEN /\ log' = Append(log, Reply("fetch_error"))
                   /\ pc' = "done" /\ UNCHANGED <<sheets, rows>>
              ELSE IF result.kind = "nonlist"
              THEN /\ log' = Append(log, Reply("fetch_failed"))
                   /\ pc' = "done" /\ UNCHANGED <<sheets, rows>>
              ELSE IF result.members = <<>>
              THEN /\ log' = Append(log, Reply("empty_members"))
                   /\ pc' = "done" /\ UNCHANGED <<sheets, rows>>
              ELSE IF processed_members = <<>>
              THEN /\ log' = Append(log, Reply("no_valid_members"))
                   /\ pc' = "done" /\ UNCHANGED <<sheets, rows>>
              ELSE IF excel = "raise"
              THEN /\ log' = log \o <<written, Reply("excel_error")>>
                   /\ rows' = processed_members
                   /\ pc' = "done" /\ UNCHANGED sheets
              ELSE /\ rows' = processed_members
                   /\ sheets' = <<[name |-> sheet_name, rows |-> processed_members]>>
                   /\ IF PrimaryReturns(primary)
                      THEN /\ log' = log \o <<written, FileSent>>
                           /\ pc' = "s_sent"
                      ELSE /\ log' = log \o
                                  (<<written>>
                                   \o (IF primary = "ok" THEN <<FileSent>>
                                       ELSE <<LogError("primary_failed")>>)
                                   \o <<Call("upload_group_file", group_id)>>)
                           /\ pc' = "s_await_upload"
    /\ UNCHANGED <<cmd, groupIdStr, groupList, gi, totalMembers, processedGroups>>
    /\ UNCHANGED fnVars

\* Lines 161-162: the command resumes after the file was yielded and returns.
S_Sent ==
    /\ pc = "s_sent"
    /\ pc' = "done"
    /\ UNCHANGED <<cmd, groupIdStr, log, groupList, gi, sheets, totalMembers,
                   processedGroups, rows>>
    /\ UNCHANGED fnVars

\* Lines 172-184: upload_group_file returns or raises.
S_Upload ==
    /\ pc = "s_await_upload"
    /\ \E upload \in {"ok", "raise"} :
          IF upload = "ok"
          THEN log' = log \o <<UploadDone, ReplySuccess(Len(rows), 0)>>
          ELSE log' = Append(log, LogError("upload_failed"))
    /\ pc' = "done"
    /\ UNCHANGED <<cmd, groupIdStr, groupList, gi, sheets, totalMembers,
                   processedGroups, rows>>
    /\ UNCHANGED fnVars

(***************************************************************************)
(* export_all_groups_data                                                  *)
(***************************************************************************)
\* group['group_id'] and group['group_name'] raise on an entry without them
DescriptorReadable(group) ==
    group.t = "dict" /\ {"group_id", "group_name"} \subseteq DOMAIN group.v

\* Lines 191-209: the checks before the group list is asked for.
A_Invoke ==
    /\ pc = "idle"
    /\ cmd' = "all"
    /\ \E platformOk, eventOk, clientOk \in BOOLEAN :
          IF ~platformOk
          THEN log' = <<Reply("qq_only")>> /\ pc' = "done"
          ELSE IF ~eventOk
          THEN log' = <<Reply("no_platform_component")>> /\ pc' = "done"
          ELSE IF ~clientOk
          THEN log' = <<Reply("no_client")>> /\ pc' = "done"
          ELSE log' = <<Call("get_group_list", "")>> /\ pc' = "a_await_list"
    /\ UNCHANGED <<groupIdStr, groupList, gi, sheets, totalMembers,
                   processedGroups, rows>>
    /\ UNCHANGED fnVars

\* Lines 209-229: the group list arrives; the writer is opened and the
\* progress message is sent.
A_GroupList ==
    /\ pc = "a_await_list"
    /\ \E kind \in {"raise", "nonlist", "list"}, group_list \in GroupLists :
          IF kind = "raise"
          THEN /\ log' = Append(log, Reply("export_all_error"))
               /\ pc' = "done" /\ UNCHANGED <<groupList, gi>>
          ELSE IF kind = "nonlist"
          THEN /\ log' = Append(log, Reply("list_failed"))
               /\ pc' = "done" /\ UNCHANGED <<groupList, gi>>
          ELSE IF group_list = <<>>
          THEN /\ log' = Append(log, Reply("no_groups"))
               /\ pc' = "done" /\ UNCHANGED <<groupList, gi>>
          ELSE /\ groupList' = group_list
               /\ gi' = 1
               /\ log' = Append(log, ReplyProgress(Len(group_list)))
               /\ pc' = "a_loop"
    /\ sheets' = <<>> /\ totalMembers' = 0 /\ processedGroups' = 0
    /\ UNCHANGED <<cmd, groupIdStr, rows>>
    /\ UNCHANGED fnVars

\* Lines 232-239: the head of the loop for the next group.  Reading the
\* descriptor is outside the per-group try: an entry it cannot read ends the
\* loop through the writer's exit (which saves) into the outer handler.
A_NextGroup ==
    /\ pc = "a_loop"
    /\ gi <= Len(groupList)
    /\ IF DescriptorReadable(groupList[gi])
       THEN /\ log' = Append(log, Call("get_group_member_list",
                                       groupList[gi].v["group_id"].v))
            /\ pc' = "a_await_members"
       ELSE /\ log' = Append(log, Reply("export_all_error"))
            /\ pc' = "done"
    /\ UNCHANGED <<cmd, groupIdStr, groupList, gi, sheets, totalMembers,
                   processedGroups, rows>>
    /\ UNCHANGED fnVars

\* Lines 239-288: the member list of group gi arrives; its rows and sheet.
A_Members ==
    /\ pc = "a_await_members"
    /\ \E result \in FetchResults,
          write \in {"ok", "raise_before", "raise_partial"} :
          LET group == groupList[gi].v
              group_id == group["group_id"].v
              processed_members ==
                  process_members(result.members,
                                  [group_id |-> group["group_id"],
                                   group_name |-> group["group_name"]])
              sheet_name == SheetNameMulti(group_id)
              mapping == Len(Mappings(result.members))
          IN  IF result.kind # "list" \/ result.members = <<>>
              THEN /\ log' = Append(log, Fetched(result.kind, 0, gi))
                   /\ UNCHANGED <<sheets, totalMembers, processedGroups, rows>>
              ELSE IF processed_members = <<>>
              THEN /\ log' = Append(log, Fetched("list", 0, gi))
                   /\ rows' = <<>>
                   /\ UNCHANGED <<sheets, totalMembers, processedGroups>>
              ELSE /\ log' = log \o <<Fetched("list", mapping, gi),
                                      ToExcel(sheet_name, write,
                                              Len(processed_members), gi)>>
                   /\ rows' = processed_members
                   /\ sheets' = WriteSheet(sheets, sheet_name,
                                           processed_members, write)
                   /\ IF write = "ok"
                      THEN /\ totalMembers' = totalMembers + Len(processed_members)
                           /\ processedGroups' = processedGroups + 1
                      ELSE UNCHANGED <<totalMembers, processedGroups>>
    /\ gi' = gi + 1
    /\ pc' = "a_loop"
    /\ UNCHANGED <<cmd, groupIdStr, groupList>>
    /\ UNCHANGED fnVars

\* Lines 289-329: the loop is over; the writer saves, then the zero-group
\* reply, method 1 and the call of method 2.  event.get_group_id() is first
\* read here.
A_Finish ==
    /\ pc = "a_loop"
    /\ gi > Len(groupList)
    /\ \E primary \in {"ok", "raise"}, group_id_str \in GroupIdStrs :
          IF WriterSaveRaises(sheets)
          THEN /\ log' = Append(log, Reply("export_all_error"))
               /\ pc' = "done" /\ UNCHANGED groupIdStr
          ELSE IF processedGroups = 0
          THEN /\ log' = Append(log, Reply("none_exported"))
               /\ pc' = "done" /\ UNCHANGED groupIdStr
          ELSE IF PrimaryReturns(primary)
          THEN /\ log' = Append(log, FileSent)
               /\ pc' = "a_sent" /\ UNCHANGED groupIdStr
          ELSE LET tried == IF primary = "ok"
                            THEN <<FileSent,
                                   ReplySuccess(totalMembers, processedGroups)>>
                            ELSE <<LogError("primary_failed")>>
               IN  /\ groupIdStr' = group_id_str
                   /\ IF ~Truthy(group_id_str)
                      THEN /\ log' = log \o tried \o <<LogError("no_group_id")>>
                           /\ pc' = "done"
                      ELSE IF ~IntParse(group_id_str.v).ok
                      THEN /\ log' = log \o tried \o <<LogError("bad_group_id")>>
                           /\ pc' = "done"
                      ELSE /\ log' = log \o tried
                                  \o <<Call("upload_group_file",
                                            IntParse(group_id_str.v).val)>>
                           /\ pc' = "a_await_upload"
    /\ UNCHANGED <<cmd, groupList, gi, sheets, totalMembers, processedGroups, rows>>
    /\ UNCHANGED fnVars

\* Lines 306-308: the command resumes after the file was yielded, confirms
\* and returns.
A_Sent ==
    /\ pc = "a_sent"
    /\ log' = Append(log, ReplySuccess(totalMembers, processedGroups))
    /\ pc' = "done"
    /\ UNCHANGED <<cmd, groupIdStr, groupList, gi, sheets, totalMembers,
                   processedGroups, rows>>
    /\ UNCHANGED fnVars

\* Lines 324-338: upload_group_file returns or raises.
A_Upload ==
    /\ pc = "a_await_upload"
    /\ \E upload \in {"ok", "raise"} :
          IF upload = "ok"
          THEN log' = log \o <<UploadDone,
                               ReplySuccess(totalMembers, processedGroups)>>
          ELSE log' = Append(log, LogError("upload_failed"))
    /\ pc' = "done"
    /\ UNCHANGED <<cmd, groupIdStr, groupList, gi, sheets, totalMembers,
                   processedGroups, rows>>
    /\ UNCHANGED fnVars

Next ==
    \/ S_Invoke \/ S_Members \/ S_Sent \/ S_Upload
    \/ A_Invoke \/ A_GroupList \/ A_NextGroup \/ A_Members \/ A_Finish
    \/ A_Sent \/ A_Upload

Spec == Init /\ [][Next]_vars

(***************************************************************************)
(* Properties.                                                             *)
(***************************************************************************)
Sentinel == Text("0000-00-00 00:00:00")

TimeFields == {"join_time", "last_sent_time", "title_expire_time", "shut_up_timestamp"}

\* a raw timestamp that is absent, negative or not a number
InvalidTimestamp(x) ==
    \/ x.t \in {"none", "str", "dict"}
    \/ x.t \in {"int", "float"} /\ x.v < 0
    \/ x.t = "bigint" /\ SubSeq(x.v, 1, 1) = "-"

\* C1: the formatter returns "0000-00-00 00:00:00" for every absent, negative
\* or non-numeric input, and so does every timestamp field of an exported
\* row whose raw value is absent, negative or non-numeric.
C1_SentinelForInvalid ==
    /\ (fnOp = "format" /\ InvalidTimestamp(fnArg)) => fnRes = Sentinel
    /\ fnOp \in {"single", "multi"} =>
          \A f \in TimeFields :
              InvalidTimestamp(DictGet(fnArg.v, f, None)) => fnRes.row.v[f] = Sentinel

RECURSIVE IsSubseq(_, _)
IsSubseq(a, b) ==
    \/ a = <<>>
    \/ /\ b # <<>>
       /\ IF Head(a) = Head(b) THEN IsSubseq(Tail(a), Tail(b))
          ELSE IsSubseq(a, Tail(b))

\* C9: the sanitizer is idempotent, never lengthens a string, keeps the
\* remaining characters in order, leaves a string without a character below
\* 32 unchanged, and leaves every non-string unchanged.
C9_Sanitizer ==
    fnOp = "clean" =>
        /\ clean_excel_invalid_chars(fnRes) = fnRes
        /\ fnArg.t = "str" =>
              /\ fnRes.t = "str"
              /\ Len(fnRes.v) <= Len(fnArg.v)
              /\ IsSubseq(fnRes.v, fnArg.v)
              /\ (\A i \in DOMAIN fnArg.v : fnArg.v[i] >= 32) => fnRes = fnArg
        /\ fnArg.t # "str" => fnRes = fnArg

\* a string that loses characters and keeps others, cleaned
C9_Witness ==
    /\ fnOp = "clean"
    /\ fnArg = Str(<<65, 9, 32>>)
    /\ fnRes = Str(<<65, 32>>)

TextFieldSet == {"nickname", "card", "title"}

\* the fields the all-groups export adds to a row, as the claim has them
\* and as the code has them
FrameHolds(added) ==
    LET in == fnArg.v
        out == fnRes.row.v
        designated == TextFieldSet \cup TimeFields \cup added
    IN  /\ \A k \in DOMAIN in \ designated : k \in DOMAIN out /\ out[k] = in[k]
        /\ DOMAIN out = DOMAIN in \cup TimeFields \cup added
        /\ fnRes.member = fnArg

\* C8 as stated: only the designated fields change, the all-groups export
\* adds group_name and nothing else, the single-group export adds no
\* group_name, and the input record is left as it was.
C8_Original ==
    /\ fnOp = "single" => FrameHolds({})
    /\ fnOp = "multi" => FrameHolds({"group_name"})

\* C8 amended: the all-groups export sets group_id as well as group_name.
C8_Frame ==
    /\ fnOp = "single" => FrameHolds({})
    /\ fnOp = "multi" =>
          /\ FrameHolds({"group_id", "group_name"})
          /\ fnRes.row.v["group_id"] = fnGroup.group_id

\* a record with its own group_id, exported under another group
C8_Witness ==
    /\ fnOp = "multi"
    /\ fnArg = MemberC
    /\ fnGroup = GroupA
    /\ fnRes.row.v["group_id"] = BigInt("1")
    /\ fnRes.row.v["user_id"] = Num(8)

(***************************************************************************)
(* Properties of the commands.                                             *)
(***************************************************************************)
Has(e) == \E i \in DOMAIN log : log[i] = e

Delivered == Has(FileSent) \/ Has(UploadDone)

IsSuccessReply(e) == e.k = "reply" /\ e.a = "success"

\* a message to the chat that reports a failure or a refusal
IsErrorReply(e) == e.k = "reply" /\ e.a \notin {"success", "progress"}

IsClientCall(e) == e.k = "call"

\* the group list was walked to its end
LoopFinished == cmd = "all" /\ groupList # <<>> /\ gi > Len(groupList)

\* the mapping records the fetch of group g returned (0 when it raised or
\* returned no list)
MappingCount(g) ==
    IF \E i \in DOMAIN log : log[i].k = "fetched" /\ log[i].g = g
    THEN log[CHOOSE i \in DOMAIN log : log[i].k = "fetched" /\ log[i].g = g].n
    ELSE 0

RECURSIVE SumMapping(_)
SumMapping(G) ==
    IF G = {} THEN 0
    ELSE LET g == CHOOSE x \in G : TRUE
         IN  MappingCount(g) + SumMapping(G \ {g})

Groups == 1..Len(groupList)

WithMappings == {g \in Groups : MappingCount(g) >= 1}

\* the groups whose sheet write returned
Written ==
    {g \in Groups : \E i \in DOMAIN log :
        log[i].k = "to_excel" /\ log[i].g = g /\ log[i].b = "ok"}

WriteTried ==
    {g \in Groups : \E i \in DOMAIN log : log[i].k = "to_excel" /\ log[i].g = g}

NameOf(g) == SheetNameMulti(groupList[g].v["group_id"].v)

\* C2 as stated: when the loop finishes there is exactly one sheet for each
\* group whose fetch returned at least one mapping record and none for any
\* other group, processed_groups is the number of those sheets and
\* total_members the sum of those groups' mapping-record counts.
C2_Original ==
    LoopFinished =>
        /\ Len(sheets) = Cardinality(WithMappings)
        /\ \A g \in WithMappings : NameOf(g) \in SheetNames(sheets)
        /\ processedGroups = Len(sheets)
        /\ totalMembers = SumMapping(WithMappings)

\* C2 amended: the groups counted are those whose fetch returned at least
\* one mapping record and whose sheet write returned without raising; each
\* of them has its sheet in the workbook; a group whose fetch raised or
\* returned a non-list, an empty list or no mapping record gets no write;
\* processed_groups and total_members count the written groups and their
\* mapping records; the sheets are as many as processed_groups when no
\* write raised and the written groups' sheet names differ.
C2_Counts ==
    LoopFinished =>
        /\ Written \subseteq WithMappings
        /\ WriteTried = WithMappings
        /\ \A g \in Written : NameOf(g) \in SheetNames(sheets)
        /\ SheetNames(sheets) \subseteq {NameOf(g) : g \in WriteTried}
        /\ processedGroups = Cardinality(Written)
        /\ totalMembers = SumMapping(Written)
        /\ (Written = WithMappings
            /\ \A g, h \in Written : g # h => NameOf(g) # NameOf(h))
           => Len(sheets) = processedGroups

\* one group written with two members, the other skipped because its fetch
\* raised
C2_Witness ==
    /\ LoopFinished
    /\ Len(groupList) = 2
    /\ Has(Fetched("list", 2, 1))
    /\ Has(Fetched("raise", 0, 2))
    /\ Len(sheets) = 1
    /\ processedGroups = 1
    /\ totalMembers = 2

\* C3: an error while handling one group never aborts the loop: every later
\* group is still fetched, and the failing group leaves no sheet and no count.
C3_LoopNeverAborts ==
    /\ (cmd = "all" /\ pc = "done" /\ groupList # <<>>) =>
          \A g \in Groups :
              DescriptorReadable(groupList[g]) =>
                  \E i \in DOMAIN log : log[i].k = "fetched" /\ log[i].g = g
    /\ cmd = "all" =>
          \A g \in WriteTried \ Written :
              (\A h \in Written : NameOf(h) # NameOf(g))
              => NameOf(g) \notin SheetNames(sheets)

\* C4: when no group of a non-empty list is processed, the workbook is still
\* assembled and the command answers that no group was exported, not that
\* the export failed; no file is delivered.
C4_ZeroGroupsReply ==
    (LoopFinished /\ pc = "done" /\ processedGroups = 0) =>
        /\ log[Len(log)] = Reply("none_exported")
        /\ ~Has(Reply("export_all_error"))
        /\ ~Delivered

\* The text denotes an integer: spaces around an optional sign and digits,
\* single underscores allowed between digits.
NumericText(s) ==
    \E i, j \in 1..Len(s) :
        /\ i <= j
        /\ \A k \in 1..(i - 1) : CharAt(s, k) = " "
        /\ \A k \in (j + 1)..Len(s) : CharAt(s, k) = " "
        /\ LET first == IF CharAt(s, i) \in {"+", "-"} THEN i + 1 ELSE i
           IN  /\ first <= j
               /\ CharAt(s, first) \in DigitChars
               /\ CharAt(s, j) \in DigitChars
               /\ \A k \in first..j :
                     \/ CharAt(s, k) \in DigitChars
                     \/ CharAt(s, k) = "_" /\ CharAt(s, k + 1) \in DigitChars

C6_NeverSilent ==
    (cmd # "idle" /\ pc = "done") =>
        \/ Delivered
        \/ \E i \in DOMAIN log : IsErrorReply(log[i])

\* C7: every sheet name given to the serializer has at most 31 characters.
C7_SheetNamesFit ==
    \A i \in DOMAIN log : log[i].k = "to_excel" => Len(log[i].a) <= MaxSheetName

\* C10: the fallback upload is called only after the primary send failed and
\* never after it succeeded, at most one of the two completes, and the
\* success confirmation follows a delivery that completed.
C10_FallbackOnlyAfterFailure ==
    /\ \A i \in DOMAIN log :
          (IsClientCall(log[i]) /\ log[i].a = "upload_group_file") =>
              /\ \E j \in 1..(i - 1) : log[j] = LogError("primary_failed")
              /\ ~Has(FileSent)
    /\ ~(Has(FileSent) /\ Has(UploadDone))
    /\ \A i, j \in DOMAIN log :
          (i # j /\ log[i] = log[j]) => log[i].k \notin {"file", "upload_done"}
    /\ \A i \in DOMAIN log :
          IsSuccessReply(log[i]) =>
              \E j \in 1..(i - 1) : log[j] \in {FileSent, UploadDone}

\* the primary send failed, the upload returned and the confirmation followed
C10_Witness ==
    /\ cmd = "all"
    /\ pc = "done"
    /\ Has(LogError("primary_failed"))
    /\ Has(UploadDone)
    /\ IsSuccessReply(log[Len(log)])
    /\ ~Has(FileSent)

====
